---- MODULE Spec2Model ----
(***************************************************************************)
(* A model of atx/device/windows.py: locating a window (Window.__init__,   *)
(* find_process_id), resolving its geometry (rect, screen_position), and   *)
(* capturing its pixels (Window.screen, FrozenWindow, WindowsDevice).      *)
(*                                                                         *)
(* Strings are sequences of one-character strings, so that lower-casing,   *)
(* splitting, quoting and substring search are computed as the code        *)
(* computes them.  The operating system (window list, process listing,     *)
(* geometry, drawing calls) is the environment: its answers are state the  *)
(* environment actions change, or outcomes chosen with \E.                 *)
(***************************************************************************)
EXTENDS Integers, Sequences, FiniteSets, TLC

\* ------------------------------------------------------------- bounds
MaxTitleLen == 2    \* longest window title / title selector
MaxTitleWins == 2   \* most top-level windows in the title scenarios
MaxCmdLen == 3      \* longest command line of a listed process
MaxProcs == 2       \* most processes in the listing
MaxExeWins == 2     \* most top-level windows in the executable scenarios
MaxWidth == 1       \* widest client area
MaxOps == 2         \* most calls on an object after its construction
MaxEnv == 1         \* most OS changes (move, resize, repaint) after it
MaxDels == 2        \* most calls of __del__ on one object

\* --------------------------------------------------- program constants
DesktopHwnd == 99   \* the handle win32gui.GetDesktopWindow() answers

VARIABLES
    windows,   \* OS: top-level windows in enumeration (z) order
    procs,     \* OS: running processes in listing order
    args,      \* the constructor's arguments
    self,      \* the object: its class and the attributes Window.__init__ sets
    ret,       \* the outcome of the last call on the object
    geom,      \* OS: the target window's geometry
    content,   \* OS: what the target window shows
    gdi,       \* OS: the drawing resources that exist, and their releases
    frozen,    \* the attributes FrozenWindow.__init__ caches
    file,      \* the image saved at the screenshot path
    log        \* bookkeeping: the geometry at construction, counts of calls

vars == <<windows, procs, args, self, ret, geom, content, gdi, frozen, file, log>>

\* ------------------------------------------------------------ strings
None == [some |-> FALSE, v |-> <<>>]
Some(s) == [some |-> TRUE, v |-> s]

RECURSIVE SeqsUpTo(_, _)
SeqsUpTo(S, n) ==
    IF n = 0 THEN {<<>>}
    ELSE LET shorter == SeqsUpTo(S, n - 1)
         IN  shorter \cup {Append(s, c) : s \in shorter, c \in S}

\* str.lower(), on the characters that occur
Lower(c) ==
    CASE c = "A" -> "a"
      [] c = "CommandLine" -> "commandline"
      [] c = "ProcessId" -> "processid"
      [] OTHER -> c
LowerS(s) == [i \in 1..Len(s) |-> Lower(s[i])]

IsSpace(c) == c = " "

\* str.strip()
RECURSIVE LStrip(_)
LStrip(s) == IF s # <<>> /\ IsSpace(s[1]) THEN LStrip(Tail(s)) ELSE s
RECURSIVE RStrip(_)
RStrip(s) ==
    IF s # <<>> /\ IsSpace(s[Len(s)]) THEN RStrip(SubSeq(s, 1, Len(s) - 1)) ELSE s
Strip(s) == RStrip(LStrip(s))

\* the length of the run of non-whitespace characters t begins with
RunLen(t) ==
    IF \E i \in 1..Len(t) : IsSpace(t[i])
    THEN (CHOOSE i \in 1..Len(t) :
              IsSpace(t[i]) /\ \A j \in 1..(i - 1) : ~IsSpace(t[j])) - 1
    ELSE Len(t)

\* str.split(): the maximal runs of non-whitespace characters
RECURSIVE Split(_)
RECURSIVE SplitRuns(_)
SplitRuns(t) ==
    IF t = <<>> THEN <<>>
    ELSE <<SubSeq(t, 1, RunLen(t))>> \o Split(SubSeq(t, RunLen(t) + 1, Len(t)))
Split(s) == SplitRuns(LStrip(s))

\* " ".join(tokens)
RECURSIVE Join(_)
Join(toks) ==
    IF toks = <<>> THEN <<>>
    ELSE IF Len(toks) = 1 THEN toks[1]
    ELSE toks[1] \o <<" ">> \o Join(Tail(toks))

\* s.find(c, start): the 0-based index of the first c at or after start, or -1
Find(s, c, start) ==
    LET hits == {i \in start..(Len(s) - 1) : s[i + 1] = c}
    IN  IF hits = {} THEN -1 ELSE CHOOSE i \in hits : \A j \in hits : i <= j

\* s[lo:hi] for 0 <= lo and any hi (a negative hi counts from the end)
Slice(s, lo, hi) ==
    LET h == IF hi < 0 THEN (IF Len(s) + hi < 0 THEN 0 ELSE Len(s) + hi)
             ELSE IF hi > Len(s) THEN Len(s) ELSE hi
    IN  SubSeq(s, lo + 1, h)

\* sub in s
Contains(s, sub) ==
    \E i \in 0..(Len(s) - Len(sub)) : SubSeq(s, i + 1, i + Len(sub)) = sub


\* ------------------------------------------------- the process listing
\* What "wmic process get processid,commandline" prints: a header line, then
\* one line per process (the command line, padding, the process id), then a
\* blank line.  A process id prints as its digits.
PidToken(pid) == IF pid = 1 THEN <<"1">> ELSE <<"2">>
WmicLine(p) == p.cmdline \o <<" ", " ">> \o PidToken(p.pid) \o <<" ">>
WmicOutput ==
    <<(<<"CommandLine", " ", " ", "ProcessId", " ">>)>>
        \o [i \in 1..Len(procs) |-> WmicLine(procs[i])]
        \o << <<>> >>

\* int(pid): the value of a token of digits, ValueError (-1 here) otherwise
IntOf(tok) ==
    IF tok = <<"1">> THEN 1 ELSE IF tok = <<"2">> THEN 2 ELSE -1

\* os.path.normpath on a Windows path: "/" becomes "\", a trailing
\* separator is dropped
NormPath(s) ==
    LET t == [i \in 1..Len(s) |-> IF s[i] = "/" THEN "\\" ELSE s[i]]
    IN  IF Len(t) > 1 /\ t[Len(t)] = "\\" THEN SubSeq(t, 1, Len(t) - 1) ELSE t

IsQuote(c) == c \in {"'", "\""}

\* find_process_id, lines 52-56: the command without its wrapping quotes,
\* or its first word
Unquoted(cmd) ==
    IF cmd = <<>> THEN <<>>
    ELSE IF IsQuote(cmd[1]) THEN Slice(cmd, 1, Find(cmd, cmd[1], 1))
    ELSE Split(cmd)[1]
\* find_process_id, lines 47-50: line[-1] and " ".join(line[:-1]) of the
\* split line
LastOf(toks) == toks[Len(toks)]
ButLast(toks) == SubSeq(toks, 1, Len(toks) - 1)
LinePid(line) == LastOf(Split(line))
LineCmd(line) == Unquoted(Join(ButLast(Split(line))))

\* find_process_id, line 58: return int(pid)
ReturnInt(pid) ==
    IF pid = -1 THEN [kind |-> "ValueError", pid |-> 0]
    ELSE [kind |-> "pid", pid |-> pid]

\* find_process_id, the loop of lines 43-59 over the lower-cased lines
RECURSIVE ScanLines(_, _)
RECURSIVE ScanLine(_, _, _)
ScanLine(exe, line, rest) ==
    IF line = <<>> THEN ScanLines(exe, rest)
    ELSE IF LineCmd(line) = <<>> THEN ScanLines(exe, rest)
    ELSE IF exe # LineCmd(line) THEN ScanLines(exe, rest)
    ELSE ReturnInt(IntOf(LinePid(line)))
ScanLines(exe, lines) ==
    IF lines = <<>> THEN [kind |-> "None", pid |-> 0]
    ELSE ScanLine(exe, Strip(LowerS(Head(lines))), Tail(lines))

find_process_id(exe_file) == ScanLines(LowerS(NormPath(exe_file)), WmicOutput)

\* ------------------------------------------------------ Window.__init__
NoObject ==
    [kind |-> "none", built |-> FALSE, hasHwnd |-> FALSE, hwnd |-> 0,
     exclude_border |-> TRUE]
NoImg == [w |-> -1, h |-> -1, px |-> "none", rows |-> "none"]
NoGeom == [left |-> 0, top |-> 0, b |-> 0, cw |-> 0, ch |-> 0, bpp |-> 0]
\* op: the call; raised: the exception it ended in; failed: the OS drawing
\* call that failed during it; img: the image returned; value: any other
\* value returned; used: the drawing handles the capture worked on; bmp: the
\* realized bitmap (width, height, bits per pixel); bufsize: the bytes
\* allocated for extraction; decoded: the bytes the decode read; caps: the
\* captures the call made; at: the OS geometry during the call
NoCall ==
    [op |-> "none", raised |-> "none", failed |-> "none", img |-> NoImg,
     value |-> <<>>, used |-> <<>>, bmp |-> <<0, 0, 0>>, bufsize |-> 0,
     decoded |-> 0, caps |-> 0, path |-> FALSE, at |-> NoGeom]

\* win32gui.FindWindow(None, name): a top-level window whose title matches
\* name, 0 when there is none.  The OS compares titles without regard to
\* letter case, and picks among several matches.
FindWindowResults(name) ==
    LET hits == {i \in 1..Len(windows) : LowerS(windows[i].title) = LowerS(name)}
    IN  IF hits = {} THEN {0} ELSE {windows[i].h : i \in hits}

\* FirstTitled, taking the last match instead of the first
FirstTitled_Last(name) ==
    LET Test(w) == Contains(w.title, name)
        extra == SelectSeq(windows, Test)
    IN  IF extra # <<>> THEN extra[Len(extra)].h ELSE 0

\* the callback of lines 88-91 under EnumWindows, then extra[0]
FirstTitled(name) ==
    LET Test(w) == Contains(w.title, name)
        extra == SelectSeq(windows, Test)
    IN  IF extra # <<>> THEN extra[1].h ELSE 0

\* the callback of lines 102-108 under EnumWindows, then extra[0]
FirstOwned(pid) ==
    LET Test(w) == w.visible /\ w.enabled /\ w.pid = pid
        extra == SelectSeq(windows, Test)
    IN  IF extra # <<>> THEN extra[1].h ELSE 0

\* Window.__init__: the exception it raises ("none": it returns) and the
\* attributes it has set by then.  found is FindWindow's answer.
Stored(raised, hwnd, exclude_border) ==
    [raised |-> raised,
     hasHwnd |-> raised = "none",
     hwnd |-> IF raised = "none" THEN hwnd ELSE 0,
     exclude_border |-> exclude_border]
\* lines 95-96 and 113-114: "if hwnd == 0: raise WindowsAppNotFoundError"
Looked(hwnd, exclude_border) ==
    Stored(IF hwnd = 0 THEN "WindowsAppNotFoundError" ELSE "none", hwnd,
           exclude_border)
\* lines 99-114 after find_process_id has answered r (a pid, None, or the
\* ValueError of int()): no window is owned by None
ByPid(r, exclude_border) ==
    IF r.kind = "ValueError" THEN Stored("ValueError", 0, exclude_border)
    ELSE IF r.kind = "pid" THEN Looked(FirstOwned(r.pid), exclude_border)
    ELSE Looked(0, exclude_border)
Window__init__(window_name, exe_file, exclude_border, found) ==
    IF window_name.some
    THEN Looked(IF found = 0 THEN FirstTitled(window_name.v) ELSE found,
                exclude_border)
    ELSE IF exe_file.some
    THEN ByPid(find_process_id(exe_file.v), exclude_border)
    ELSE Stored("none", DesktopHwnd, exclude_border)

\* ---------------------------------------------------------- geometry
\* A window's geometry: its outer top-left corner, its border (b left, right
\* and below, a title bar of 2b above) and its client size.
GetWindowRect(g) ==
    <<g.left, g.top, g.left + 2 * g.b + g.cw, g.top + 3 * g.b + g.ch>>
GetClientRect(g) == <<0, 0, g.cw, g.ch>>
ClientToScreen(g, p) == <<g.left + g.b + p[1], g.top + 2 * g.b + p[2]>>

\* Window.rect reads the name hwnd, which is neither a local nor a global of
\* the module: the property raises NameError whatever exclude_border is.
Window_rect(g, exclude_border) == [raised |-> "NameError", value |-> <<>>]

\* Window.screen_position: Position(x, y, width, height)
Window_screen_position(g, exclude_border) ==
    LET o == GetWindowRect(g)
        c == GetClientRect(g)
        lt == ClientToScreen(g, <<c[1], c[2]>>)
        rb == ClientToScreen(g, <<c[3], c[4]>>)
    IN  IF exclude_border
        THEN <<lt[1] - o[1], lt[2] - o[2], rb[1] - lt[1], rb[2] - lt[2]>>
        ELSE <<0, 0, o[3] - o[1], o[4] - o[2]>>

\* FrozenWindow.__init_rect_position: the cached _rect and _screen_position
FrozenWindow_init_rect_position(g, exclude_border) ==
    LET o == GetWindowRect(g)
        c == GetClientRect(g)
        lt == ClientToScreen(g, <<c[1], c[2]>>)
        rb == ClientToScreen(g, <<c[3], c[4]>>)
    IN  IF exclude_border
        THEN [_rect |-> <<lt[1], lt[2], rb[1], rb[2]>>,
              _screen_position |->
                  <<lt[1] - o[1], lt[2] - o[2], rb[1] - lt[1], rb[2] - lt[2]>>]
        ELSE [_rect |-> o,
              _screen_position |-> <<0, 0, o[3] - o[1], o[4] - o[2]>>]

\* ----------------------------------------------------- drawing resources
\* The OS hands out the smallest handle not in use.
Alloc(live) == CHOOSE h \in 1..(Cardinality(live) + 1) :
                  h \notin live /\ \A k \in 1..(h - 1) : k \in live
Range(q) == {q[i] : i \in 1..Len(q)}
\* the next k handles it hands out
RECURSIVE AllocSeq(_, _)
AllocSeq(live, k) ==
    IF k = 0 THEN <<>>
    ELSE <<Alloc(live)>> \o AllocSeq(live \cup {Alloc(live)}, k - 1)

\* win32gui.CreateCompatibleBitmap + GetObject: the realized bitmap.  A
\* request with a zero side that the OS honours yields its 1x1 monochrome
\* bitmap.
Realized(width, height, bpp) ==
    IF width = 0 \/ height = 0 THEN <<1, 1, 1>> ELSE <<width, height, bpp>>

\* the drawing calls in the order a capture makes them
DrawCalls ==
    <<"GetWindowDC", "CreateCompatibleDC", "CreateCompatibleBitmap",
      "SelectObject", "BitBlt", "GetObject", "GetDIBits">>
CallNo(c) == IF c = "none" THEN Len(DrawCalls) + 1
             ELSE CHOOSE i \in 1..Len(DrawCalls) : DrawCalls[i] = c
\* the win32gui calls raise when the OS call fails; GetDIBits is called
\* through ctypes, which returns its result (0: failure) to a caller that
\* drops it
Raises(c) == c \notin {"none", "GetDIBits"}

\* BufSize, sized by the bitmap's own bits per pixel with no padding
BufSize_NoPad(bmWidth, bmHeight, pixel) ==
    ((bmWidth * pixel + 7) \div 8) * bmHeight

\* "calculate total size for bits", under Python 2's integer division
BufSize(bmWidth, bmHeight, pixel) ==
    ((bmWidth * pixel + pixel - 1) \div pixel) * 4 * bmHeight

\* Image.frombuffer('RGB', (w, h), buf, 'raw', 'BGRX', 0, 1): the bytes read,
\* four per pixel, rows packed
DecodeBytes(w, h) == 4 * w * h

\* Image.transpose(FLIP_TOP_BOTTOM)
Flip(rows) == IF rows = "bottom-up" THEN "top-down" ELSE "bottom-up"

NoCapture ==
    [raised |-> "none", failed |-> "none", img |-> NoImg, handles |-> <<>>,
     live |-> {}, bmp |-> <<0, 0, 0>>, bufsize |-> 0, decoded |-> 0]

\* the drawing resources a capture has acquired when it fails at failAt:
\* hdcwin by GetWindowDC, hdcmem by CreateCompatibleDC, hbmp by
\* CreateCompatibleBitmap
Acquired(h, failAt) ==
    {h[i] : i \in {k \in 1..3 : k < CallNo(failAt)}}
\* hbmp is a PyHANDLE object, which deletes its bitmap when the collector
\* destroys it: once the call that created it has raised, the bitmap has
\* (gc) or has not been deleted by the time the call is over
Collected(failAt) ==
    IF Raises(failAt) /\ CallNo(failAt) > 3 THEN BOOLEAN ELSE {FALSE}
Dropped(h, gc) == IF gc THEN {h[3]} ELSE {}

\* Window.screen, lines 157-201, on handles h = <<hdcwin, hdcmem, hbmp>> and
\* the realized bitmap bmp.  A call that raises makes none of the release
\* calls of lines 197-199; the fresh buffer is zeroed, and GetDIBits fills
\* it bottom row first.
Captured(h, bmp, px, live, failAt, gc) ==
    IF Raises(failAt)
    THEN [NoCapture EXCEPT !.raised = "pywintypes.error", !.failed = failAt,
                           !.live = live \cup (Acquired(h, failAt) \ Dropped(h, gc))]
    ELSE IF DecodeBytes(bmp[1], bmp[2]) > BufSize(bmp[1], bmp[2], bmp[3])
    THEN [NoCapture EXCEPT !.raised = "ValueError", !.failed = failAt,
                           !.handles = h,
                           !.live = live \cup Acquired(h, failAt),
                           !.bmp = bmp,
                           !.bufsize = BufSize(bmp[1], bmp[2], bmp[3])]
    ELSE [NoCapture EXCEPT !.failed = failAt,
                           !.img = [w |-> bmp[1], h |-> bmp[2],
                                    px |-> IF failAt = "GetDIBits" THEN "blank"
                                           ELSE px,
                                    rows |-> Flip("bottom-up")],
                           !.handles = h,
                           \* DeleteObject(hbmp), DeleteObject(hdcmem), ReleaseDC
                           !.live = live,
                           !.bmp = bmp,
                           !.bufsize = BufSize(bmp[1], bmp[2], bmp[3]),
                           !.decoded = DecodeBytes(bmp[1], bmp[2])]

\* the bitmap realized for a capture of the zone pos
RealizedFor(pos, bpp) == Realized(pos[3], pos[4], bpp)

\* Window_screen, resolving the zone once, when the object was built
Window_screen_Stale(g, exclude_border, px, live, failAt, gc) ==
    Captured(AllocSeq(live, 3),
             RealizedFor(Window_screen_position(log.geom0, exclude_border), g.bpp),
             px, live, failAt, gc)

\* Window.screen on geometry g showing px, with the OS failing drawing call
\* failAt ("none": no call fails).  live: the drawing resources that exist,
\* before and (in the result) after the call.
Window_screen(g, exclude_border, px, live, failAt, gc) ==
    Captured(AllocSeq(live, 3),
             RealizedFor(Window_screen_position(g, exclude_border), g.bpp),
             px, live, failAt, gc)

\* ---------------------------------------------------------- FrozenWindow
NoFrozen ==
    [hasRect |-> FALSE, _rect |-> <<>>, _screen_position |-> <<>>,
     hasHandles |-> FALSE, _hdcwin |-> 0, _hdcmem |-> 0, _hbmp |-> 0,
     _bi |-> <<0, 0, 0>>, _buf |-> 0, bufpx |-> "blank"]
NoGdi == [live |-> {}, made |-> <<0, 0, 0>>, rel |-> <<0, 0, 0>>]

\* FrozenWindow.__init_screen_handles, lines 242-277, on handles h and the
\* realized bitmap bmp.  made: the handles acquired (hdcwin, hdcmem, hbmp;
\* 0: not acquired); rel: how often each has been released; the attributes
\* are set only by lines 273-277.
HandlesCached(fz, h, bmp, live, failAt, gc) ==
    IF Raises(failAt)
    THEN [raised |-> "pywintypes.error",
          frozen |-> fz,
          gdi |-> [live |-> live \cup (Acquired(h, failAt) \ Dropped(h, gc)),
                   made |-> [i \in 1..3 |-> IF h[i] \in Acquired(h, failAt)
                                            THEN h[i] ELSE 0],
                   rel |-> <<0, 0, IF gc THEN 1 ELSE 0>>]]
    ELSE [raised |-> "none",
          frozen |-> [fz EXCEPT !.hasHandles = TRUE, !._hdcwin = h[1],
                                !._hdcmem = h[2], !._hbmp = h[3],
                                !._bi = bmp,
                                !._buf = BufSize(bmp[1], bmp[2], bmp[3])],
          gdi |-> [live |-> live \cup {h[1], h[2], h[3]},
                   made |-> h,
                   rel |-> <<0, 0, 0>>]]
FrozenWindow_init_screen_handles(fz, live, failAt, bpp, gc) ==
    HandlesCached(fz, AllocSeq(live, 3), RealizedFor(fz._screen_position, bpp),
                  live, failAt, gc)

\* FrozenWindow.__init__, lines 212-215, once Window.__init__ has returned
Cached(rp) ==
    [NoFrozen EXCEPT !.hasRect = TRUE, !._rect = rp._rect,
                     !._screen_position = rp._screen_position]
FrozenWindow__init__(g, exclude_border, live, failAt, gc) ==
    FrozenWindow_init_screen_handles(
        Cached(FrozenWindow_init_rect_position(g, exclude_border)),
        live, failAt, g.bpp, gc)

\* FrozenWindow_screen, working on a context and a bitmap of its own
FrozenWindow_screen_Fresh(fz, px, live, failAt) ==
    Captured(AllocSeq(live, 3), fz._bi, px, live \cup Range(AllocSeq(live, 3)),
             failAt, FALSE)

\* FrozenWindow.screen with the OS failing drawing call failAt
FrozenWindow_screen(fz, px, live, failAt) ==
    LET pos == fz._screen_position
        bufpx == IF failAt = "GetDIBits" THEN fz.bufpx ELSE px
    IN  IF Raises(failAt)
        THEN [NoCapture EXCEPT !.raised = "pywintypes.error", !.failed = failAt,
                               !.handles = <<fz._hdcwin, fz._hdcmem, fz._hbmp>>,
                               !.live = live]
        ELSE IF DecodeBytes(pos[3], pos[4]) > fz._buf
        THEN [NoCapture EXCEPT !.raised = "ValueError", !.failed = failAt,
                               !.handles = <<fz._hdcwin, fz._hdcmem, fz._hbmp>>,
                               !.live = live, !.bmp = fz._bi, !.bufsize = fz._buf]
        ELSE [NoCapture EXCEPT !.failed = failAt,
                               !.img = [w |-> pos[3], h |-> pos[4], px |-> bufpx,
                                        rows |-> Flip("bottom-up")],
                               !.handles = <<fz._hdcwin, fz._hdcmem, fz._hbmp>>,
                               !.live = live, !.bmp = fz._bi, !.bufsize = fz._buf,
                               !.decoded = DecodeBytes(pos[3], pos[4])]

\* FrozenWindow.__del__: DeleteObject(_hbmp), DeleteObject(_hdcmem),
\* ReleaseDC(_hdcwin), in this order.  Reading an attribute that was never
\* set raises AttributeError; releasing a handle that no longer exists makes
\* the win32gui call raise; either ends the method there.
FrozenWindow_del(fz, g) ==
    LET ok3 == fz.hasHandles /\ fz._hbmp \in g.live
        live3 == IF ok3 THEN g.live \ {fz._hbmp} ELSE g.live
        ok2 == ok3 /\ fz._hdcmem \in live3
        live2 == IF ok2 THEN live3 \ {fz._hdcmem} ELSE live3
        ok1 == ok2 /\ fz._hdcwin \in live2
        live1 == IF ok1 THEN live2 \ {fz._hdcwin} ELSE live2
        Inc(i, ok) == IF ok THEN g.rel[i] + 1 ELSE g.rel[i]
    IN  [raised |-> IF ~fz.hasHandles THEN "AttributeError"
                    ELSE IF ok1 THEN "none" ELSE "pywintypes.error",
         gdi |-> [g EXCEPT !.live = live1,
                           !.rel = <<Inc(1, ok1), Inc(2, ok2), Inc(3, ok3)>>]]

\* ------------------------------------------------------------- actions
Bpps == {24, 32}
Contents == {"p0", "p1"}
Geoms == [left : {1}, top : {2}, b : {0, 1}, cw : 0..MaxWidth, ch : {2}, bpp : Bpps]
Failures == {"none"} \cup {DrawCalls[i] : i \in 1..Len(DrawCalls)}
\* the drawing calls FrozenWindow.__init_screen_handles makes
InitFailures ==
    {"none", "GetWindowDC", "CreateCompatibleDC", "CreateCompatibleBitmap",
     "SelectObject", "GetObject"}
NoLog ==
    [geom0 |-> NoGeom, nops |-> 0, nenv |-> 0, dels |-> 0, caps |-> 0, dims |-> {}]

\* the record of a capture r made by call op
RetOf(op, r, caps) ==
    [NoCall EXCEPT !.op = op, !.raised = r.raised, !.failed = r.failed,
                   !.img = r.img, !.used = r.handles, !.bmp = r.bmp,
                   !.bufsize = r.bufsize, !.decoded = r.decoded,
                   !.caps = caps, !.at = geom]
Called(r) ==
    [log EXCEPT !.nops = @ + 1,
                !.caps = IF r.img # NoImg /\ @ < 2 THEN @ + 1 ELSE @,
                !.dims = IF r.img # NoImg THEN @ \cup {<<r.img.w, r.img.h>>} ELSE @]

\* cls(window_name=..., exe_file=..., exclude_border=...): Window.__init__,
\* and for a FrozenWindow __init_rect_position and __init_screen_handles
Construct ==
    /\ self.kind = "none"
    /\ \E found \in (IF args.window_name.some
                      THEN FindWindowResults(args.window_name.v) ELSE {0}),
          failAt \in (IF args.cls = "FrozenWindow" THEN InitFailures ELSE {"none"}) :
          \E w \in {Window__init__(args.window_name, args.exe_file,
                                    args.exclude_border, found)} :
          \E gc \in Collected(failAt) :
          \E sh \in {FrozenWindow__init__(geom, w.exclude_border, gdi.live,
                                          failAt, gc)} :
          \E isFrozen \in {args.cls = "FrozenWindow" /\ w.raised = "none"} :
          \E raised \in {IF isFrozen THEN sh.raised ELSE w.raised} :
              /\ self' = [kind |-> args.cls, built |-> raised = "none",
                           hasHwnd |-> w.hasHwnd, hwnd |-> w.hwnd,
                           exclude_border |-> w.exclude_border]
              /\ frozen' = IF isFrozen THEN sh.frozen ELSE frozen
              /\ gdi' = IF isFrozen THEN sh.gdi ELSE gdi
              /\ ret' = [NoCall EXCEPT !.op = "__init__", !.raised = raised,
                                       !.failed = IF isFrozen THEN failAt ELSE "none",
                                       !.at = geom]
              /\ log' = [log EXCEPT !.geom0 = geom]
    /\ UNCHANGED <<windows, procs, args, geom, content, file>>

CanCall == self.built /\ log.dels = 0 /\ log.nops < MaxOps
CanEnv == CanCall /\ log.nenv < MaxEnv
Uncached == self.kind \in {"Window", "WindowsDevice"}

\* Window.screen
ScreenWindow ==
    /\ CanCall /\ Uncached
    /\ \E failAt \in Failures :
          \E gc \in Collected(failAt) :
          \E r \in {Window_screen(geom, self.exclude_border, content, gdi.live,
                                  failAt, gc)} :
              /\ ret' = RetOf("screen", r, 1)
              /\ gdi' = [gdi EXCEPT !.live = r.live]
              /\ log' = Called(r)
    /\ UNCHANGED <<windows, procs, args, self, geom, content, frozen, file>>

\* FrozenWindow.screen
ScreenFrozen ==
    /\ CanCall /\ self.kind = "FrozenWindow"
    /\ \E failAt \in {"none", "BitBlt", "GetDIBits"} :
          \E r \in {FrozenWindow_screen(frozen, content, gdi.live, failAt)} :
              /\ ret' = RetOf("screen", r, 1)
              /\ gdi' = [gdi EXCEPT !.live = r.live]
              /\ frozen' = [frozen EXCEPT
                              !.bufpx = IF r.img # NoImg THEN r.img.px ELSE @]
              /\ log' = Called(r)
    /\ UNCHANGED <<windows, procs, args, self, geom, content, file>>

\* Window.rect
RectWindow ==
    /\ CanCall /\ Uncached
    /\ LET r == Window_rect(geom, self.exclude_border)
       IN  ret' = [NoCall EXCEPT !.op = "rect", !.raised = r.raised,
                                 !.value = r.value, !.at = geom]
    /\ log' = [log EXCEPT !.nops = @ + 1]
    /\ UNCHANGED <<windows, procs, args, self, geom, content, gdi, frozen, file>>

\* FrozenWindow.rect
RectFrozen ==
    /\ CanCall /\ self.kind = "FrozenWindow"
    /\ ret' = [NoCall EXCEPT !.op = "rect", !.value = frozen._rect, !.at = geom]
    /\ log' = [log EXCEPT !.nops = @ + 1]
    /\ UNCHANGED <<windows, procs, args, self, geom, content, gdi, frozen, file>>

\* Window.screen_position
PositionWindow ==
    /\ CanCall /\ Uncached
    /\ ret' = [NoCall EXCEPT !.op = "screen_position",
                             !.value = Window_screen_position(geom, self.exclude_border),
                             !.at = geom]
    /\ log' = [log EXCEPT !.nops = @ + 1]
    /\ UNCHANGED <<windows, procs, args, self, geom, content, gdi, frozen, file>>

\* FrozenWindow.screen_position
PositionFrozen ==
    /\ CanCall /\ self.kind = "FrozenWindow"
    /\ ret' = [NoCall EXCEPT !.op = "screen_position",
                             !.value = frozen._screen_position, !.at = geom]
    /\ log' = [log EXCEPT !.nops = @ + 1]
    /\ UNCHANGED <<windows, procs, args, self, geom, content, gdi, frozen, file>>

\* WindowsDevice.screenshot(filename) with Window._screenshot: with a
\* filename, one capture is saved and a second one is returned; px2 is what
\* the window shows by the second capture.
Screenshot ==
    /\ CanCall /\ self.kind = "WindowsDevice"
    /\ \E path \in BOOLEAN, f1 \in Failures :
       \E gc1 \in Collected(f1) :
       \E r1 \in {Window_screen(geom, self.exclude_border, content, gdi.live,
                                f1, gc1)} :
          IF ~path \/ r1.raised # "none"
          THEN \* "return self.screen", or the capture of _screenshot raised
               /\ ret' = [RetOf("screenshot", r1, 1) EXCEPT !.path = path]
               /\ gdi' = [gdi EXCEPT !.live = r1.live]
               /\ log' = Called(r1)
               /\ UNCHANGED <<content, file>>
          ELSE \/ \* Image.save raised
                  /\ ret' = [NoCall EXCEPT !.op = "screenshot", !.raised = "IOError",
                                           !.path = path, !.caps = 1, !.at = geom]
                  /\ gdi' = [gdi EXCEPT !.live = r1.live]
                  /\ log' = [log EXCEPT !.nops = @ + 1]
                  /\ UNCHANGED <<content, file>>
               \/ \* saved, then "return self.screen"
                  \E f2 \in Failures, px2 \in Contents :
                  \E gc2 \in Collected(f2) :
                  \E r2 \in {Window_screen(geom, self.exclude_border, px2, r1.live,
                                           f2, gc2)} :
                      /\ file' = r1.img
                      /\ content' = px2
                      /\ ret' = [RetOf("screenshot", r2, 2) EXCEPT !.path = path]
                      /\ gdi' = [gdi EXCEPT !.live = r2.live]
                      /\ log' = Called(r2)
    /\ UNCHANGED <<windows, procs, args, self, geom, frozen>>

\* WindowsDevice.display
Display ==
    /\ CanCall /\ self.kind = "WindowsDevice"
    /\ LET pos == Window_screen_position(geom, self.exclude_border)
       IN  ret' = [NoCall EXCEPT !.op = "display", !.value = <<pos[3], pos[4]>>,
                                 !.at = geom]
    /\ log' = [log EXCEPT !.nops = @ + 1]
    /\ UNCHANGED <<windows, procs, args, self, geom, content, gdi, frozen, file>>

\* WindowsDevice.click and WindowsDevice.text: bodies of a docstring only
ClickOrText ==
    /\ CanCall /\ self.kind = "WindowsDevice"
    /\ \E op \in {"click", "text"} : ret' = [NoCall EXCEPT !.op = op, !.at = geom]
    /\ log' = [log EXCEPT !.nops = @ + 1]
    /\ UNCHANGED <<windows, procs, args, self, geom, content, gdi, frozen, file>>

\* FrozenWindow.__del__, called explicitly or by the collector, also on an
\* object whose __init__ raised
Del ==
    /\ self.kind = "FrozenWindow"
    /\ log.dels < MaxDels
    /\ LET r == FrozenWindow_del(frozen, gdi)
       IN  /\ gdi' = r.gdi
           /\ ret' = [NoCall EXCEPT !.op = "__del__", !.raised = r.raised, !.at = geom]
    /\ log' = [log EXCEPT !.dels = @ + 1]
    /\ UNCHANGED <<windows, procs, args, self, geom, content, frozen, file>>

\* the OS: the window is moved or resized
Resize ==
    /\ CanEnv
    /\ \E g \in Geoms \ {geom} : g.bpp = geom.bpp /\ geom' = g
    /\ log' = [log EXCEPT !.nenv = @ + 1]
    /\ UNCHANGED <<windows, procs, args, self, ret, content, gdi, frozen, file>>

\* the OS: the window shows something else
Repaint ==
    /\ CanEnv
    /\ \E px \in Contents \ {content} : content' = px
    /\ log' = [log EXCEPT !.nenv = @ + 1]
    /\ UNCHANGED <<windows, procs, args, self, ret, geom, gdi, frozen, file>>

\* the scenarios of an object of one of the classes cls, built on the
\* desktop (no selector) or with a title no window has
InitOf(cls) ==
    /\ windows = <<>>
    /\ procs = <<>>
    /\ args \in [cls : cls, window_name : {None, Some(<<"a">>)},
                 exe_file : {None}, exclude_border : BOOLEAN]
    /\ self = NoObject
    /\ ret = NoCall
    /\ geom \in Geoms
    /\ content = "p0"
    /\ gdi = NoGdi
    /\ frozen = NoFrozen
    /\ file = NoImg
    /\ log = NoLog

\* Window and FrozenWindow
InitCapture == InitOf({"Window", "FrozenWindow"})
NextCapture ==
    \/ Construct
    \/ ScreenWindow
    \/ ScreenFrozen
    \/ RectWindow
    \/ RectFrozen
    \/ PositionWindow
    \/ PositionFrozen
    \/ Del
    \/ Resize
    \/ Repaint
SpecCapture == InitCapture /\ [][NextCapture]_vars

\* WindowsDevice
InitDevice == InitOf({"WindowsDevice"})
NextDevice ==
    \/ Construct
    \/ ScreenWindow
    \/ RectWindow
    \/ PositionWindow
    \/ Screenshot
    \/ Display
    \/ ClickOrText
    \/ Resize
    \/ Repaint
SpecDevice == InitDevice /\ [][NextDevice]_vars

\* the title scenarios: every list of windows, every title selector
TitleChars == {"a", "A"}
Titles == SeqsUpTo(TitleChars, MaxTitleLen)
TitleWindows ==
    UNION {[1..n -> Titles] : n \in 0..MaxTitleWins}
InitTitle ==
    /\ \E ts \in TitleWindows :
          windows = [i \in 1..Len(ts) |->
                       [h |-> i, title |-> ts[i], visible |-> TRUE,
                        enabled |-> TRUE, pid |-> 1]]
    /\ procs = <<>>
    /\ \E t \in Titles, e \in {None, Some(<<"a">>)} :
          args = [cls |-> "Window", window_name |-> Some(t), exe_file |-> e,
                  exclude_border |-> TRUE]
    /\ self = NoObject
    /\ ret = NoCall
    /\ geom = NoGeom
    /\ content = "p0"
    /\ gdi = NoGdi
    /\ frozen = NoFrozen
    /\ file = NoImg
    /\ log = NoLog
SpecTitle == InitTitle /\ [][Construct]_vars

\* the executable scenarios: every process listing, every window list
CmdChars == {"A", " ", "\""}
CmdLines == SeqsUpTo(CmdChars, MaxCmdLen)
ExeFiles == {<<"A">>, <<"a", "/">>, <<"commandline">>}
ProcLists ==
    UNION {[1..n -> CmdLines] : n \in 0..MaxProcs}
ExeWindowKinds == [visible : BOOLEAN, enabled : BOOLEAN, pid : {1, 2}]
ExeWindows ==
    UNION {[1..n -> ExeWindowKinds] : n \in 0..MaxExeWins}
InitExe ==
    /\ \E ws \in ExeWindows :
          windows = [i \in 1..Len(ws) |->
                       [h |-> i, title |-> <<>>, visible |-> ws[i].visible,
                        enabled |-> ws[i].enabled, pid |-> ws[i].pid]]
    /\ \E cs \in ProcLists :
          procs = [i \in 1..Len(cs) |-> [cmdline |-> cs[i], pid |-> i]]
    /\ \E e \in ExeFiles :
          args = [cls |-> "Window", window_name |-> None, exe_file |-> Some(e),
                  exclude_border |-> TRUE]
    /\ self = NoObject
    /\ ret = NoCall
    /\ geom = NoGeom
    /\ content = "p0"
    /\ gdi = NoGdi
    /\ frozen = NoFrozen
    /\ file = NoImg
    /\ log = NoLog
SpecExe == InitExe /\ [][Construct]_vars


\* -------------------------------------------------------- properties
Min(S) == CHOOSE i \in S : \A j \in S : i <= j
TitleDone == ret.op = "__init__" /\ args.window_name.some
ExactHits == {i \in 1..Len(windows) : windows[i].title = args.window_name.v}
CaselessHits ==
    {i \in 1..Len(windows) :
        LowerS(windows[i].title) = LowerS(args.window_name.v)}
SubHits == {i \in 1..Len(windows) : Contains(windows[i].title, args.window_name.v)}
NotFound ==
    /\ ret.raised = "WindowsAppNotFoundError"
    /\ ~self.hasHwnd
Resolved(h) == ret.raised = "none" /\ self.hasHwnd /\ self.hwnd = h

\* C1 as stated: a title selector resolves to the window whose title equals
\* it exactly if there is one, otherwise to the first window in enumeration
\* order whose title contains it, otherwise construction fails with the
\* not-found error and stores no handle.
C1_ExactTitleFirst ==
    TitleDone =>
        IF ExactHits # {} THEN \E i \in ExactHits : Resolved(windows[i].h)
        ELSE IF SubHits # {} THEN Resolved(windows[Min(SubHits)].h)
        ELSE NotFound

\* C1 amended: a title selector resolves to a window whose title equals it
\* without regard to letter case if there is one, otherwise to the first
\* window in enumeration order whose title contains it (case-sensitively),
\* otherwise construction fails with the not-found error and stores no
\* handle, neither 0 nor the desktop's.
C1_TitleResolution ==
    TitleDone =>
        IF CaselessHits # {} THEN \E i \in CaselessHits : Resolved(windows[i].h)
        ELSE IF SubHits # {} THEN Resolved(windows[Min(SubHits)].h)
        ELSE NotFound /\ self.hwnd # DesktopHwnd

\* C1 witness: no title equals the selector, two windows contain it, and
\* the first of them was taken.
C1_Witness ==
    /\ TitleDone
    /\ CaselessHits = {}
    /\ Cardinality(SubHits) >= 2
    /\ Resolved(windows[Min(SubHits)].h)

\* the first token of a command line, wrapping quotes stripped: the text
\* between a leading quote and the next such quote, otherwise the first run
\* of non-whitespace characters (<<>>: the command line is blank)
FirstToken(cmdline) ==
    LET t == Strip(cmdline)
    IN  IF t = <<>> THEN <<>>
        ELSE IF IsQuote(t[1]) /\ Find(t, t[1], 1) >= 1
             THEN Slice(t, 1, Find(t, t[1], 1))
        ELSE Split(t)[1]
ExeDone == ret.op = "__init__" /\ ~args.window_name.some /\ args.exe_file.some
ProcHits ==
    {i \in 1..Len(procs) :
        /\ FirstToken(procs[i].cmdline) # <<>>
        /\ LowerS(FirstToken(procs[i].cmdline)) = LowerS(NormPath(args.exe_file.v))}
OwnedHits(pid) ==
    {i \in 1..Len(windows) :
        windows[i].visible /\ windows[i].enabled /\ windows[i].pid = pid}

\* C2 as stated: an executable selector chooses the first listed process
\* whose command line's first token (wrapping quotes stripped, lower-cased)
\* equals the normalized path, and resolves to the first visible, enabled
\* window that process owns; with no such process or no such window,
\* construction fails with the not-found error.
C2_ExeResolution ==
    ExeDone =>
        IF ProcHits = {} THEN NotFound
        ELSE LET pid == procs[Min(ProcHits)].pid
             IN  IF OwnedHits(pid) = {} THEN NotFound
                 ELSE Resolved(windows[Min(OwnedHits(pid))].h)

\* a capture made by Window.screen or FrozenWindow.screen
ScreenDone == ret.op = "screen" /\ self.kind \in {"Window", "FrozenWindow"}

\* C3 as stated: a capture in which an OS drawing call fails ends in an
\* error and returns no image.
C3_FailedCaptureNoImage ==
    (ScreenDone /\ ret.failed # "none") =>
        ret.raised # "none" /\ ret.img = NoImg

\* C4 as stated: once a non-cached capture is over, by return or by failure,
\* the window object holds no drawing resource.
C4_NothingHeld ==
    (ScreenDone /\ self.kind = "Window") => gdi.live = {}

\* C5 as stated: once a cached engine has been torn down, every drawing
\* resource its construction acquired has been released exactly once, and
\* the teardown of an engine whose construction did not finish does not
\* fail.
C5_ReleasedOnce ==
    (self.kind = "FrozenWindow" /\ ret.op = "__del__") =>
        /\ \A i \in 1..3 : gdi.made[i] # 0 => gdi.rel[i] = 1
        /\ ~self.built => ret.raised = "none"

\* a cached engine between its construction and its teardown
FrozenLive == self.kind = "FrozenWindow" /\ self.built /\ log.dels = 0

\* C6: between construction and teardown, every capture of a cached engine
\* works on the window context, off-screen context, bitmap, header and
\* buffer made at construction; no capture acquires or releases a drawing
\* resource; all images returned have the same dimensions.
C6_SameResources ==
    FrozenLive =>
        /\ gdi.live = Range(gdi.made)
        /\ gdi.rel = <<0, 0, 0>>
        /\ Cardinality(log.dims) <= 1
        /\ ret.op = "screen" =>
              /\ ret.used = gdi.made
              /\ ret.img # NoImg => ret.bmp = frozen._bi /\ ret.bufsize = frozen._buf

\* C6 witness: a cached engine returned an image, the window was resized,
\* and the engine returned a second image.
C6_Witness ==
    /\ FrozenLive
    /\ ret.op = "screen" /\ ret.img # NoImg
    /\ log.caps = 2
    /\ log.nenv = 1
    /\ <<geom.cw, geom.b>> # <<log.geom0.cw, log.geom0.b>>

\* C7 as stated: screenshot(path) makes one capture, and the image it
\* returns is the image it saved, whatever the window shows meanwhile.
C7_SavedIsReturned ==
    (ret.op = "screenshot" /\ ret.path /\ ret.raised = "none") =>
        ret.caps = 1 /\ file = ret.img

\* the content rectangle and the outer rectangle of a window of geometry g,
\* in absolute screen coordinates
ContentRect(g) ==
    <<g.left + g.b, g.top + 2 * g.b, g.left + g.b + g.cw, g.top + 2 * g.b + g.ch>>
OuterRect(g) == <<g.left, g.top, g.left + 2 * g.b + g.cw, g.top + 3 * g.b + g.ch>>
\* the zone of the window the object stands for: (x, y, width, height)
Zone(g, exclude_border) ==
    IF exclude_border
    THEN <<ContentRect(g)[1] - OuterRect(g)[1], ContentRect(g)[2] - OuterRect(g)[2],
           ContentRect(g)[3] - ContentRect(g)[1], ContentRect(g)[4] - ContentRect(g)[2]>>
    ELSE <<0, 0, OuterRect(g)[3] - OuterRect(g)[1], OuterRect(g)[4] - OuterRect(g)[2]>>
\* the geometry a query answers from: the one at construction for a cached
\* engine, the one at the call otherwise
QueriedAt == IF self.kind = "FrozenWindow" THEN log.geom0 ELSE ret.at

\* C8 as stated: rect always returns a value, the content rectangle when
\* exclude_border is true and the outer rectangle otherwise, and
\* screen_position is the offset and size of that rectangle within the
\* outer one, so that rect's sides differ by the width and the height.
C8_Geometry ==
    /\ ret.op = "rect" =>
          /\ ret.raised = "none"
          /\ ret.value = (IF self.exclude_border THEN ContentRect(QueriedAt)
                          ELSE OuterRect(QueriedAt))
    /\ ret.op = "screen_position" =>
          ret.value = Zone(QueriedAt, self.exclude_border)

\* a non-cached capture that returned an image
WindowShot == ret.op = "screen" /\ self.kind = "Window" /\ ret.img # NoImg
\* a geometry query of a cached engine
FrozenQuery ==
    self.kind = "FrozenWindow" /\ ret.op \in {"rect", "screen_position"}

C10_BufferFits ==
    (ScreenDone /\ ret.bmp # <<0, 0, 0>>) =>
        /\ ret.bufsize = 4 * ret.bmp[1] * ret.bmp[2]
        /\ ret.raised = "none"
        /\ ret.decoded = 4 * ret.img.w * ret.img.h
        /\ ret.decoded <= ret.bufsize
        /\ (ret.img.w > 0 /\ ret.img.h > 0) => ret.decoded = ret.bufsize

\* C10 witness: a cached engine on a 24-bit display decoded an image of
\* positive size out of a buffer of exactly its size.
C10_Witness ==
    /\ ScreenDone /\ self.kind = "FrozenWindow"
    /\ ret.bmp[3] = 24
    /\ ret.img # NoImg /\ ret.img.w > 0
    /\ ret.decoded = ret.bufsize

====
